---- MODULE Spec2Model ----
(***************************************************************************)
(* A model of the ingestion side of azure-ai-search-pipeline:              *)
(*   - DocumentProcessor.process_documents_batch  (src/core)               *)
(*   - IndexManager.upload_documents              (src/search)             *)
(*   - EmbeddingGenerator.generate_batch_embeddings (src/core)             *)
(* Each component is a sequential procedure.  A behaviour of Spec runs one *)
(* of them from its call to its return (or to the exception that leaves    *)
(* it); the other components stay idle.  External services (HTTP, the      *)
(* extraction service, the embedding service, the index) answer            *)
(* nondeterministically.                                                   *)
(*                                                                         *)
(* Python values: a str is a sequence of one-character strings, None is    *)
(* the record None, a list that can also be None is PyList(items), a dict  *)
(* is a record whose DOMAIN is its key set (the empty dict is << >>).      *)
(***************************************************************************)
EXTENDS Integers, Sequences, FiniteSets, TLC

VARIABLES
    \* ---- DocumentProcessor.process_documents_batch
    batch_pc,        \* idle | loop | download | extract | build | done | raised | cleaned
    urls,            \* the argument
    i,               \* enumerate(urls, 1)
    temp_file,       \* the path create_temp_file returned for item i
    text,            \* extract_content's first result
    metadata,        \* extract_content's second result
    processed_docs,  \* the list being built
    batch_return,    \* the value returned, NoReturn before / without a return
    files,           \* the files of FileManager.base_directory
    batch_log,       \* per finished item: what the logger said about it
    \* ---- IndexManager.upload_documents
    upload_pc,       \* idle | start | sent | done
    documents,       \* the argument
    valid_docs,      \* what was handed to search_client.upload_documents
    index_called,    \* whether search_client.upload_documents was called
    index_raised,    \* whether that call raised
    results,         \* the IndexingResult.succeeded flags it returned
    upload_return,   \* the value returned, NoReturn before the return
    upload_log,      \* positions (in results) logged as failed
    \* ---- EmbeddingGenerator.generate_batch_embeddings
    embed_pc,        \* idle | batch | item | done
    texts,           \* the argument
    batch_size,      \* the argument (after the None default)
    emb_i,           \* for i in range(0, len(texts), batch_size)
    emb_j,           \* for j, text in enumerate(batch)
    batch_embeddings,
    all_embeddings,
    embed_return,    \* the value returned, NoReturn before the return
    served,          \* per position: what the embedding service answered
    embed_events,    \* attempts, service requests and sleeps, in order
    \* ---- EmbeddingGenerator.add_embeddings_to_documents
    enh_pc,          \* idle | embedding | done
    enh_documents,   \* the argument
    enhanced_docs,   \* the value returned, NoReturn before the return
    \* ---- EmbeddingGenerator.generate_embedding, called on its own
    gen_pc,          \* idle | start | called | done
    gen_text,        \* the argument
    gen_requests,    \* the inputs submitted to embeddings.create
    gen_response,    \* what the service answered, NotCalled before
    gen_return,      \* the value returned, NoReturn before the return
    \* ---- IndexManager.create_or_update_index
    idx_pc,          \* idle | ready
    index,           \* the index the service holds under index_name, or Absent
    idx_calls,       \* one record per call of create_or_update_index so far
    \* ---- InteractiveSearchInterface.start_chat
    chat_pc,         \* idle | menu | chosen | returned | raised
    current_query,   \* self.current_query
    chat_choice,     \* the stripped text read at the menu prompt
    chat_turns,      \* passes of the loop so far
    chat_out,        \* the lines printed in the current pass of the loop
    chat_event,      \* none | failed | interrupted | quit, in the current pass
    chat_typed,      \* the line read at the prompt of the action, in the current pass
    chat_requests,   \* the requests sent to the index in the current pass
    chat_eof,        \* whether a prompt has found the input stream ended
    \* ---- DocumentProcessor.download_document, called on its own
    dl_pc,           \* idle | start | done | raised
    dl_response,     \* what requests.get did, NotCalled before
    dl_written,      \* whether the whole body reached the destination
    dl_return,       \* the value returned, NoReturn before the return
    \* _extract_contextual_snippet, called on its own
    snip_pc,         \* idle | start | done
    snip_content,    \* the content
    snip_query,      \* the query
    snip_context,    \* context_length
    snip_out,        \* the snippet returned, NoReturn before the return
    \* InteractiveSearchChat (interactive_search.py): a handler called on its own
    lc_pc,                   \* idle | start | done | raised
    current_search_query,    \* self.current_search_query
    lc_typed,                \* the lines read at the prompts of the handler
    lc_requests,             \* the requests sent to the index
    lc_out                   \* the lines printed

batchVars  == <<batch_pc, urls, i, temp_file, text, metadata, processed_docs,
                batch_return, files, batch_log>>
uploadVars == <<upload_pc, documents, valid_docs, index_called, index_raised,
                results, upload_return, upload_log>>
embedVars  == <<embed_pc, texts, batch_size, emb_i, emb_j, batch_embeddings,
                all_embeddings, embed_return, served, embed_events>>
enhVars    == <<enh_pc, enh_documents, enhanced_docs>>
genVars    == <<gen_pc, gen_text, gen_requests, gen_response, gen_return>>
idxVars    == <<idx_pc, index, idx_calls>>
chatVars   == <<chat_pc, current_query, chat_choice, chat_turns, chat_out,
                chat_event, chat_typed, chat_requests, chat_eof>>
dlVars     == <<dl_pc, dl_response, dl_written, dl_return>>
snipVars   == <<snip_pc, snip_content, snip_query, snip_context, snip_out>>
legacyVars == <<lc_pc, current_search_query, lc_typed, lc_requests, lc_out>>
moreVars   == <<snipVars, legacyVars>>
laterVars  == <<enhVars, genVars, idxVars, chatVars, dlVars, moreVars>>
vars == <<batchVars, uploadVars, embedVars, laterVars>>

(***************************************************************************)
(* Bounds of the model.                                                    *)
(***************************************************************************)
MaxUrls == 3
MaxDocs == 2
MaxTexts == 3
MaxBatchSize == 2
MaxEnhDocs == 3
MaxIndexCalls == 3
MaxTurns == 2
MaxResults == 2

(***************************************************************************)
(* Python values.                                                          *)
(***************************************************************************)
None == [type |-> "NoneType"]
PyStr(s) == [type |-> "str", val |-> s]
PyList(s) == [type |-> "list", items |-> s]
NoReturn == [type |-> "no return"]
EmptyDict == << >>

Whitespace == {" ", "\n", "\t"}

\* str.lstrip(): the text from its first character that is not whitespace.
lstrip(s) ==
    IF \A k \in 1..Len(s) : s[k] \in Whitespace THEN << >>
    ELSE SubSeq(s,
                CHOOSE n \in 1..Len(s) :
                    s[n] \notin Whitespace /\ \A k \in 1..(n - 1) : s[k] \in Whitespace,
                Len(s))

\* str.rstrip(): the text up to its last character that is not whitespace.
rstrip(s) ==
    IF \A k \in 1..Len(s) : s[k] \in Whitespace THEN << >>
    ELSE SubSeq(s, 1,
                CHOOSE n \in 1..Len(s) :
                    s[n] \notin Whitespace
                    /\ \A k \in (n + 1)..Len(s) : s[k] \in Whitespace)

\* str.strip()
strip(s) == rstrip(lstrip(s))

\* sep.join(parts)
RECURSIVE join(_, _)
join(sep, parts) ==
    IF parts = << >> THEN << >>
    ELSE IF Len(parts) = 1 THEN parts[1]
    ELSE parts[1] \o sep \o join(sep, Tail(parts))

\* dict.get(key, default)
dict_get(d, key, default) == IF key \in DOMAIN d THEN d[key] ELSE default

(***************************************************************************)
(* DocumentProcessor                                                       *)
(***************************************************************************)
Urls == {"u1", "u2"}

\* What requests.get can do: answer with a status (a redirect is followed,
\* so a status of the 3xx range is one that is final, such as 304), fail in
\* transport, or time out.
HttpResponses ==
    {[kind |-> "response", status |-> s] : s \in {200, 204, 304, 404, 500}}
    \cup {[kind |-> "transport_error"], [kind |-> "timeout"]}

\* Response.raise_for_status raises for 4xx and 5xx.
raise_for_status(status) == status >= 400 /\ status < 600

\* download_document: True iff nothing raised on the way to "return True".
download_document(resp, write_ok) ==
    /\ resp.kind = "response"
    /\ ~raise_for_status(resp.status)
    /\ write_ok

\* What the extraction service can answer: pages of lines, and metadata that
\* is missing (None), has no title attribute, or carries a title that is None
\* or a string.
Pages ==
    { << >>,
      << << <<" ">> >> >>,
      << << <<"a">> >> >>,
      << << <<"a">>, <<" ">> >>, << <<"b">> >> >> }
Titles == {None, PyStr("Manual")}
AnalyzeResults ==
    {[pages |-> p, metadata |-> m] :
        p \in Pages,
        m \in {None, [author |-> PyStr("A")]} \cup {[title |-> t] : t \in Titles}}

RECURSIVE page_lines(_)
page_lines(lines) ==
    IF lines = << >> THEN << >>
    ELSE (IF strip(Head(lines)) # << >> THEN <<Head(lines)>> ELSE << >>)
         \o page_lines(Tail(lines))

\* for page in result.pages: for line in page.lines: keep the non-blank ones
RECURSIVE text_lines(_)
text_lines(pages) ==
    IF pages = << >> THEN << >>
    ELSE page_lines(Head(pages)) \o text_lines(Tail(pages))

\* _extract_metadata: the keys the model reads (title, which is
\* getattr(result.metadata, "title", None)) and page_count.
extract_metadata(result) ==
    IF result.metadata # None
    THEN IF result.pages # << >>
         THEN [title |-> dict_get(result.metadata, "title", None),
               page_count |-> Len(result.pages)]
         ELSE [title |-> dict_get(result.metadata, "title", None)]
    ELSE IF result.pages # << >>
         THEN [page_count |-> Len(result.pages)]
         ELSE EmptyDict

\* extract_content's text on the path that does not raise
extract_text(result) == join(<<"\n">>, text_lines(result.pages))

\* A variant of text_is_falsy: "if text is None".
text_is_none(t) == t = None

\* "if not text": None or the empty string
text_is_falsy(t) == t = None \/ t = PyStr(<< >>)

\* A variant of doc_id: enumerate(urls) without start=1.
doc_id_zero_based(k) == <<"doc_", k - 1>>

\* f"doc_{i}"
doc_id(k) == <<"doc_", k>>

\* f"doc_{i}.pdf"
doc_filename(k) == <<"doc_", k, ".pdf">>

\* create_temp_file(suffix=".pdf", prefix=f"doc_{i}_"): a fresh name
temp_name(k) == <<"doc_", k, "_", "tmp", ".pdf">>

\* metadata.get("title", "Unknown Product") if metadata else "Unknown Product"
product_name(md) ==
    IF md # EmptyDict
    THEN dict_get(md, "title", PyStr("Unknown Product"))
    ELSE PyStr("Unknown Product")

doc_data(k, url, t, md, path) ==
    [id |-> doc_id(k),
     content |-> t.val,
     product_name |-> product_name(md),
     filename |-> doc_filename(k),
     filepath |-> path,
     document_url |-> url,
     content_length |-> Len(t.val)]

\* Files that are in the base directory before processing and were not
\* created by it: doc_0_report.pdf and notes_0.txt.
ForeignFiles == { <<"doc_", 0, "_", "report", ".pdf">>, <<"notes_", 0, ".txt">> }

\* Path.glob("doc_*.pdf"), on a file name of the base directory
glob_doc_pdf(name) == name[1] = "doc_" /\ name[Len(name)] = ".pdf"

BatchIdle ==
    /\ batch_pc = "idle" /\ urls = << >> /\ i = 0
    /\ temp_file = None /\ text = None /\ metadata = None
    /\ processed_docs = << >> /\ batch_return = NoReturn
    /\ files = {} /\ batch_log = << >>

BatchInit ==
    /\ batch_pc = "loop"
    /\ urls \in UNION {[1..n -> Urls] : n \in 0..MaxUrls}
    /\ i = 1
    /\ temp_file = None /\ text = None /\ metadata = None
    /\ processed_docs = << >> /\ batch_return = NoReturn
    /\ files = ForeignFiles /\ batch_log = << >>

\* Line 131: the temporary file of item i is created, outside the try.
CreateTempFile ==
    /\ batch_pc = "loop" /\ i <= Len(urls)
    /\ temp_file' = temp_name(i)
    /\ files' = files \cup {temp_name(i)}
    /\ batch_pc' = "download"
    /\ UNCHANGED <<urls, i, text, metadata, processed_docs, batch_return, batch_log>>
    /\ UNCHANGED <<uploadVars, embedVars, laterVars>>

\* Line 131 raising (NamedTemporaryFile cannot create the file): no handler
\* encloses it, so the exception leaves process_documents_batch.
CreateTempFileRaises ==
    /\ batch_pc = "loop" /\ i <= Len(urls)
    /\ batch_pc' = "raised"
    /\ UNCHANGED <<urls, i, temp_file, text, metadata, processed_docs,
                   batch_return, files, batch_log>>
    /\ UNCHANGED <<uploadVars, embedVars, laterVars>>

\* Lines 138-140.
DownloadDocument ==
    /\ batch_pc = "download"
    /\ \E resp \in HttpResponses, write_ok \in BOOLEAN :
          IF download_document(resp, write_ok)
          THEN /\ batch_pc' = "extract"
               /\ UNCHANGED <<i, batch_log>>
          ELSE /\ batch_pc' = "loop"
               /\ i' = i + 1
               /\ batch_log' = Append(batch_log, "download")
    /\ UNCHANGED <<urls, temp_file, text, metadata, processed_docs,
                   batch_return, files>>
    /\ UNCHANGED <<uploadVars, embedVars, laterVars>>

\* Lines 143-146: extract_content returns (None, None) when the file is
\* missing or the service raises, else (text, metadata).
ExtractContent ==
    /\ batch_pc = "extract"
    /\ \E raised \in BOOLEAN, result \in AnalyzeResults :
          LET t  == IF raised \/ temp_file \notin files
                    THEN None ELSE PyStr(extract_text(result))
              md == IF raised \/ temp_file \notin files
                    THEN None ELSE extract_metadata(result)
          IN  IF text_is_falsy(t)
              THEN /\ batch_pc' = "loop"
                   /\ i' = i + 1
                   /\ batch_log' = Append(batch_log, "extraction")
                   /\ UNCHANGED <<text, metadata>>
              ELSE /\ batch_pc' = "build"
                   /\ text' = t
                   /\ metadata' = md
                   /\ UNCHANGED <<i, batch_log>>
    /\ UNCHANGED <<urls, temp_file, processed_docs, batch_return, files>>
    /\ UNCHANGED <<uploadVars, embedVars, laterVars>>

\* Lines 149-165: the document is built and appended, or building it raises
\* and the except clause goes on to the next item.
BuildDocument ==
    /\ batch_pc = "build"
    /\ \E raised \in BOOLEAN :
          IF raised
          THEN /\ batch_log' = Append(batch_log, "exception")
               /\ UNCHANGED processed_docs
          ELSE /\ processed_docs' =
                     Append(processed_docs,
                            doc_data(i, urls[i], text, metadata, temp_file))
               /\ batch_log' = Append(batch_log, "success")
    /\ batch_pc' = "loop"
    /\ i' = i + 1
    /\ UNCHANGED <<urls, temp_file, text, metadata, batch_return, files>>
    /\ UNCHANGED <<uploadVars, embedVars, laterVars>>

\* Line 171.
BatchReturn ==
    /\ batch_pc = "loop" /\ i > Len(urls)
    /\ batch_return' = processed_docs
    /\ batch_pc' = "done"
    /\ UNCHANGED <<urls, i, temp_file, text, metadata, processed_docs,
                   files, batch_log>>
    /\ UNCHANGED <<uploadVars, embedVars, laterVars>>

\* cleanup_temp_files, called after the batch: every file of the base
\* directory that matches doc_*.pdf is unlinked; an unlink that fails is
\* logged and the file stays (at most one unlink fails here).
CleanupTempFiles ==
    /\ batch_pc = "done"
    /\ \E kept \in {{}} \cup {{f} : f \in {g \in files : glob_doc_pdf(g)}} :
          files' = {f \in files : ~glob_doc_pdf(f)} \cup kept
    /\ batch_pc' = "cleaned"
    /\ UNCHANGED <<urls, i, temp_file, text, metadata, processed_docs,
                   batch_return, batch_log>>
    /\ UNCHANGED <<uploadVars, embedVars, laterVars>>

BatchNext ==
    \/ CreateTempFile
    \/ CreateTempFileRaises
    \/ DownloadDocument
    \/ ExtractContent
    \/ BuildDocument
    \/ BatchReturn
    \/ CleanupTempFiles

(***************************************************************************)
(* IndexManager.upload_documents                                           *)
(***************************************************************************)
vector_dimensions == 1536

PyBool(b) == [type |-> "bool", val |-> b]

\* A list of n components, all v.
ConstVector(n, v) == [k \in 1..n |-> v]

\* Documents a caller can pass: complete ones, with and without a vector, and
\* ones with a missing or empty id or content, or a vector that is None or
\* of another length.
UploadDocs ==
    { [id |-> doc_id(1), content |-> <<"a">>],
      [id |-> doc_id(2), content |-> <<"b">>,
       content_vector |-> PyList(ConstVector(vector_dimensions, 0))],
      [content |-> <<"a">>],
      [id |-> << >>, content |-> <<"a">>],
      [id |-> doc_id(3)],
      [id |-> doc_id(4), content |-> << >>],
      [id |-> doc_id(5), content |-> <<"a">>,
       content_vector |-> PyList(ConstVector(vector_dimensions - 1, 0))],
      [id |-> doc_id(6), content |-> <<"a">>, content_vector |-> None] }

\* A variant of validate_single_document: the vector's length is not checked.
validate_without_dimension(doc) ==
    /\ \A fld \in {"id", "content"} : fld \in DOMAIN doc /\ doc[fld] # << >>
    /\ "content_vector" \in DOMAIN doc => doc.content_vector.type = "list"

\* _validate_single_document
validate_single_document(doc) ==
    /\ \A fld \in {"id", "content"} : fld \in DOMAIN doc /\ doc[fld] # << >>
    /\ "content_vector" \in DOMAIN doc =>
          /\ doc.content_vector.type = "list"
          /\ Len(doc.content_vector.items) = vector_dimensions

\* _validate_documents
validate_documents(docs) == SelectSeq(docs, validate_single_document)

\* success_count = sum(1 for r in results if r.succeeded)
success_count(res) == Cardinality({k \in 1..Len(res) : res[k]})

\* A variant of upload_result: "return success_count > 0".
upload_result_any(res) == success_count(res) > 0

\* return success_count == total_count
upload_result(res) == success_count(res) = Len(res)

\* The positions "Document {i+1} upload failed" is logged for.
failed_positions(res) == {k \in 1..Len(res) : ~res[k]}

UploadIdle ==
    /\ upload_pc = "idle" /\ documents = << >> /\ valid_docs = << >>
    /\ index_called = FALSE /\ index_raised = FALSE /\ results = << >>
    /\ upload_return = NoReturn /\ upload_log = {}

UploadInit ==
    /\ upload_pc = "start"
    /\ documents \in UNION {[1..n -> UploadDocs] : n \in 0..MaxDocs}
    /\ valid_docs = << >>
    /\ index_called = FALSE /\ index_raised = FALSE /\ results = << >>
    /\ upload_return = NoReturn /\ upload_log = {}

\* Lines 137-139: nothing to upload.
UploadNothing ==
    /\ upload_pc = "start" /\ documents = << >>
    /\ upload_return' = PyBool(TRUE)
    /\ upload_pc' = "done"
    /\ UNCHANGED <<documents, valid_docs, index_called, index_raised, results,
                   upload_log>>
    /\ UNCHANGED <<batchVars, embedVars, laterVars>>

\* Lines 144-149: validation, then either "No valid documents" or the call.
UploadValidate ==
    /\ upload_pc = "start" /\ documents # << >>
    /\ LET valid == validate_documents(documents)
       IN  IF valid = << >>
           THEN /\ upload_return' = PyBool(FALSE)
                /\ upload_pc' = "done"
                /\ UNCHANGED <<valid_docs, index_called>>
           ELSE /\ valid_docs' = valid
                /\ index_called' = TRUE
                /\ upload_pc' = "sent"
                /\ UNCHANGED upload_return
    /\ UNCHANGED <<documents, index_raised, results, upload_log>>
    /\ UNCHANGED <<batchVars, embedVars, laterVars>>

\* Lines 149-166: the index answers with one result per document, or raises.
UploadAnswer ==
    /\ upload_pc = "sent"
    /\ \/ /\ index_raised' = TRUE
          /\ upload_return' = PyBool(FALSE)
          /\ UNCHANGED <<results, upload_log>>
       \/ \E res \in [1..Len(valid_docs) -> BOOLEAN] :
             /\ results' = res
             /\ upload_log' = failed_positions(res)
             /\ upload_return' = PyBool(upload_result(res))
             /\ UNCHANGED index_raised
    /\ upload_pc' = "done"
    /\ UNCHANGED <<documents, valid_docs, index_called>>
    /\ UNCHANGED <<batchVars, embedVars, laterVars>>

UploadNext ==
    \/ UploadNothing
    \/ UploadValidate
    \/ UploadAnswer

(***************************************************************************)
(* EmbeddingGenerator                                                      *)
(***************************************************************************)
default_max_tokens == 8191
default_batch_size == 10

EmbedTexts == { << >>, <<" ">>, <<"a">>, <<" ", "b">> }

\* What embeddings.create can do: raise, or answer with a vector.
EmbeddingResponses ==
    { [kind |-> "raises"],
      [kind |-> "data", embedding |-> ConstVector(vector_dimensions, 0)],
      [kind |-> "data", embedding |-> <<1, 2>>] }
NotCalled == [kind |-> "not_called"]

\* A variant of _truncate_text that never cuts.
truncate_text_keep_all(t, max_tokens) == t

\* _truncate_text
truncate_text(t, max_tokens) ==
    IF Len(t) <= max_tokens * 4 THEN t ELSE SubSeq(t, 1, max_tokens * 4)

\* A variant of the blank check: "if not text".
is_blank_empty_only(t) == t = << >>

\* "if not text or not text.strip()"
is_blank(t) == t = << >> \/ strip(t) = << >>

\* input=text.strip(), after the truncation
embedding_input(t) == strip(truncate_text(t, default_max_tokens))

\* generate_embedding, given what the service does when it is called
generate_embedding(t, resp) ==
    IF is_blank(t) THEN None
    ELSE IF resp.kind = "data" THEN PyList(resp.embedding)
    ELSE None

\* A variant of batch: texts[i:i + batch_size - 1].
batch_one_short(ts, lo, bs) ==
    SubSeq(ts, lo + 1, IF lo + bs - 1 < Len(ts) THEN lo + bs - 1 ELSE Len(ts))

\* texts[i:i + batch_size]
batch(ts, lo, bs) ==
    SubSeq(ts, lo + 1, IF lo + bs < Len(ts) THEN lo + bs ELSE Len(ts))

\* A variant of item_pause: the pause also follows the last item of a batch.
item_pause_always(j, blen) == j < blen

\* "if j < len(batch) - 1": the 100 ms pause after item j of a batch
item_pause(j, blen) == j < blen - 1

\* "if i + batch_size < len(texts)": the 1 s pause after the batch at i
batch_pause(lo, bs, n) == lo + bs < n

EmbedIdle ==
    /\ embed_pc = "idle" /\ texts = << >> /\ batch_size = 0
    /\ emb_i = 0 /\ emb_j = 0
    /\ batch_embeddings = << >> /\ all_embeddings = << >>
    /\ embed_return = NoReturn /\ served = << >> /\ embed_events = << >>

EmbedInit ==
    /\ embed_pc = "batch"
    /\ texts \in UNION {[1..n -> EmbedTexts] : n \in 0..MaxTexts}
    /\ batch_size \in (1..MaxBatchSize) \cup {default_batch_size}
    /\ emb_i = 0 /\ emb_j = 0
    /\ batch_embeddings = << >> /\ all_embeddings = << >>
    /\ embed_return = NoReturn
    /\ served = [k \in 1..Len(texts) |-> NotCalled]
    /\ embed_events = << >>

\* Lines 51-53: the next batch starts.
BatchStart ==
    /\ embed_pc = "batch" /\ emb_i < Len(texts)
    /\ batch_embeddings' = << >>
    /\ emb_j' = 0
    /\ embed_pc' = "item"
    /\ UNCHANGED <<texts, batch_size, emb_i, all_embeddings, embed_return,
                   served, embed_events>>
    /\ UNCHANGED <<batchVars, uploadVars, laterVars>>

\* Lines 57-64: one text of the batch.
EmbedItem ==
    /\ embed_pc = "item"
    /\ emb_j < Len(batch(texts, emb_i, batch_size))
    /\ LET b == batch(texts, emb_i, batch_size)
           t == b[emb_j + 1]
       IN  \E resp \in IF is_blank(t) THEN {NotCalled} ELSE EmbeddingResponses :
              /\ batch_embeddings' =
                    Append(batch_embeddings, generate_embedding(t, resp))
              /\ served' = [served EXCEPT ![emb_i + emb_j + 1] = resp]
              /\ embed_events' =
                    embed_events
                    \o << [ev |-> "attempt", pos |-> emb_i + emb_j + 1] >>
                    \o (IF is_blank(t) THEN << >>
                        ELSE << [ev |-> "request", input |-> embedding_input(t)] >>)
                    \o (IF item_pause(emb_j, Len(b))
                        THEN << [ev |-> "sleep", ms |-> 100] >> ELSE << >>)
    /\ emb_j' = emb_j + 1
    /\ UNCHANGED <<embed_pc, texts, batch_size, emb_i, all_embeddings, embed_return>>
    /\ UNCHANGED <<batchVars, uploadVars, laterVars>>

\* Lines 70-74: the batch is over.
BatchEnd ==
    /\ embed_pc = "item"
    /\ emb_j >= Len(batch(texts, emb_i, batch_size))
    /\ all_embeddings' = all_embeddings \o batch_embeddings
    /\ embed_events' =
          IF batch_pause(emb_i, batch_size, Len(texts))
          THEN Append(embed_events, [ev |-> "sleep", ms |-> 1000])
          ELSE embed_events
    /\ emb_i' = emb_i + batch_size
    /\ embed_pc' = "batch"
    /\ UNCHANGED <<texts, batch_size, emb_j, batch_embeddings, embed_return, served>>
    /\ UNCHANGED <<batchVars, uploadVars, laterVars>>

\* Line 79.
EmbedReturn ==
    /\ embed_pc = "batch" /\ emb_i >= Len(texts)
    /\ embed_return' = all_embeddings
    /\ embed_pc' = "done"
    /\ UNCHANGED <<texts, batch_size, emb_i, emb_j, batch_embeddings,
                   all_embeddings, served, embed_events>>
    /\ UNCHANGED <<batchVars, uploadVars, laterVars>>

EmbedNext ==
    \/ BatchStart
    \/ EmbedItem
    \/ BatchEnd
    \/ EmbedReturn

(***************************************************************************)
(* EmbeddingGenerator.add_embeddings_to_documents                          *)
(***************************************************************************)
\* The documents a caller can pass at position k: with a content that the
\* embedding accepts or refuses, or without a content.
EnhDocsAt(k) ==
    {[id |-> doc_id(k), content |-> c] : c \in {<<" ">>, <<"a">>, <<" ", "b">>}}
    \cup {[id |-> doc_id(k)]}

\* texts = [doc.get('content', '') for doc in documents]
contents(docs) == [k \in 1..Len(docs) |-> dict_get(docs[k], "content", << >>)]

\* doc_copy = doc.copy(); doc_copy['content_vector'] = embedding
with_vector(doc, embedding) ==
    [f \in DOMAIN doc \cup {"content_vector"} |->
        IF f = "content_vector" THEN embedding ELSE doc[f]]

\* A variant of enhance: a document whose embedding is None is kept as it is.
RECURSIVE enhance_keep_all(_, _)
enhance_keep_all(docs, embeddings) ==
    IF docs = << >> \/ embeddings = << >> THEN << >>
    ELSE (IF Head(embeddings) # None
          THEN << with_vector(Head(docs), Head(embeddings)) >>
          ELSE << Head(docs) >>)
         \o enhance_keep_all(Tail(docs), Tail(embeddings))

\* for doc, embedding in zip(documents, embeddings): keep those with a vector
RECURSIVE enhance(_, _)
enhance(docs, embeddings) ==
    IF docs = << >> \/ embeddings = << >> THEN << >>
    ELSE (IF Head(embeddings) # None
          THEN << with_vector(Head(docs), Head(embeddings)) >>
          ELSE << >>)
         \o enhance(Tail(docs), Tail(embeddings))

EnhIdle ==
    /\ enh_pc = "idle" /\ enh_documents = << >> /\ enhanced_docs = NoReturn

\* Lines 97-98: the contents go to generate_batch_embeddings, whose
\* batch_size is the configured default.
EnhInit ==
    /\ enh_pc = "embedding"
    /\ enh_documents \in
          UNION {[1..n -> UNION {EnhDocsAt(m) : m \in 1..n}]
                    : n \in 0..MaxEnhDocs}
    /\ \A k \in 1..Len(enh_documents) : enh_documents[k] \in EnhDocsAt(k)
    /\ enhanced_docs = NoReturn
    /\ embed_pc = "batch"
    /\ texts = contents(enh_documents)
    /\ batch_size = default_batch_size
    /\ emb_i = 0 /\ emb_j = 0
    /\ batch_embeddings = << >> /\ all_embeddings = << >>
    /\ embed_return = NoReturn
    /\ served = [k \in 1..Len(enh_documents) |-> NotCalled]
    /\ embed_events = << >>

\* Lines 100-112: generate_batch_embeddings has returned.
EnhanceDocuments ==
    /\ enh_pc = "embedding" /\ embed_pc = "done"
    /\ enhanced_docs' = enhance(enh_documents, embed_return)
    /\ enh_pc' = "done"
    /\ UNCHANGED enh_documents
    /\ UNCHANGED <<batchVars, uploadVars, embedVars, genVars, idxVars, chatVars, dlVars, moreVars>>

(***************************************************************************)
(* EmbeddingGenerator.generate_embedding, called on its own                *)
(***************************************************************************)
\* max_chars = max_tokens * 4, for the default max_tokens
max_chars == default_max_tokens * 4

\* A text of n characters c.
Fill(n, c) == [k \in 1..n |-> c]

\* Texts a caller can pass: empty, blank, short, at the limit, and beyond it
\* with and without whitespace at the ends of the prefix that is kept, with
\* nothing but whitespace, and with nothing but whitespace in that prefix.
GenTexts ==
    { << >>, <<" ">>, <<"\n", "\t">>, <<"a">>, <<" ", "b", " ">>,
      Fill(max_chars, "a"),
      Fill(max_chars + 1, "a"),
      <<" ">> \o Fill(max_chars, "a"),
      Fill(max_chars - 1, "a") \o <<" ", "b">>,
      Fill(max_chars + 1, " "),
      Fill(max_chars, " ") \o <<"a">> }

\* What embeddings.create can answer here: as above, or a vector of the right
\* length with a component of implausible magnitude.
GenResponses ==
    EmbeddingResponses
    \cup { [kind |-> "data", embedding |-> ConstVector(vector_dimensions, 2000000)] }

\* validate_embedding
validate_embedding(embedding) ==
    /\ embedding # << >>
    /\ Len(embedding) = vector_dimensions
    /\ \A k \in 1..Len(embedding) :
          -1000000 < embedding[k] /\ embedding[k] < 1000000

GenIdle ==
    /\ gen_pc = "idle" /\ gen_text = << >> /\ gen_requests = << >>
    /\ gen_response = NotCalled /\ gen_return = NoReturn

GenInit ==
    /\ gen_pc = "start" /\ gen_text \in GenTexts /\ gen_requests = << >>
    /\ gen_response = NotCalled /\ gen_return = NoReturn

\* Lines 20-31: the blank check, then the truncated and stripped text is
\* submitted.
GenerateEmbeddingCall ==
    /\ gen_pc = "start"
    /\ IF is_blank(gen_text)
       THEN /\ gen_return' = generate_embedding(gen_text, NotCalled)
            /\ gen_pc' = "done"
            /\ UNCHANGED gen_requests
       ELSE /\ gen_requests' = Append(gen_requests, embedding_input(gen_text))
            /\ gen_pc' = "called"
            /\ UNCHANGED gen_return
    /\ UNCHANGED <<gen_text, gen_response>>
    /\ UNCHANGED <<batchVars, uploadVars, embedVars, enhVars, idxVars, chatVars, dlVars, moreVars>>

\* Lines 28-39: the service answers or raises; the except clause returns None.
GenerateEmbeddingAnswer ==
    /\ gen_pc = "called"
    /\ \E resp \in GenResponses :
          /\ gen_response' = resp
          /\ gen_return' = generate_embedding(gen_text, resp)
    /\ gen_pc' = "done"
    /\ UNCHANGED <<gen_text, gen_requests>>
    /\ UNCHANGED <<batchVars, uploadVars, embedVars, enhVars, idxVars, chatVars, dlVars, moreVars>>

(***************************************************************************)
(* IndexManager.create_or_update_index                                     *)
(***************************************************************************)
index_name == <<"l", "i", "b", "r", "a", "r", "y">>

\* _define_index_fields
define_index_fields ==
    << [name |-> "id", type |-> "String", key |-> TRUE, filterable |-> TRUE,
        sortable |-> TRUE],
       [name |-> "content", type |-> "String", searchable |-> TRUE,
        filterable |-> FALSE],
       [name |-> "product_name", type |-> "String", filterable |-> TRUE,
        sortable |-> TRUE, facetable |-> TRUE],
       [name |-> "filename", type |-> "String", filterable |-> TRUE,
        sortable |-> TRUE, facetable |-> TRUE],
       [name |-> "filepath", type |-> "String", filterable |-> TRUE],
       [name |-> "document_url", type |-> "String", filterable |-> TRUE],
       [name |-> "content_length", type |-> "Int32", filterable |-> TRUE,
        sortable |-> TRUE],
       [name |-> "processed_at", type |-> "DateTimeOffset", filterable |-> TRUE,
        sortable |-> TRUE],
       [name |-> "content_vector", type |-> "Collection(Single)",
        searchable |-> TRUE, vector_search_dimensions |-> vector_dimensions,
        vector_search_profile_name |-> "vector-config"] >>

\* The vector search settings with the algorithm configuration under a name.
vector_search_named(algorithm, parameters) ==
    [profiles |-> << [name |-> "vector-config",
                      algorithm_configuration_name |-> algorithm] >>,
     algorithms |-> << [name |-> algorithm, kind |-> "hnsw",
                        parameters |-> parameters] >>]

hnsw_parameters ==
    [m |-> 4, efConstruction |-> 400, efSearch |-> 500, metric |-> "cosine"]

\* A variant of _configure_vector_search: the algorithm configuration gets
\* another name from the second call on.
configure_vector_search_renamed ==
    vector_search_named(IF idx_calls = << >> THEN "hnsw-config" ELSE "hnsw-config-2",
                        hnsw_parameters)

\* _configure_vector_search
configure_vector_search == vector_search_named("hnsw-config", hnsw_parameters)

\* SearchIndex(name=..., fields=..., vector_search=...)
SearchIndex(name, fields, vector_search) ==
    [name |-> name, fields |-> fields, vector_search |-> vector_search]

\* The index the script main.py creates under the same name: fewer fields,
\* and the algorithm configuration is named algo-config, with no parameters.
legacy_index ==
    SearchIndex(index_name,
                << [name |-> "id", type |-> "String", key |-> TRUE,
                    filterable |-> TRUE, sortable |-> TRUE],
                   [name |-> "content", type |-> "String"],
                   [name |-> "product_name", type |-> "String",
                    filterable |-> TRUE, sortable |-> TRUE],
                   [name |-> "filename", type |-> "String",
                    filterable |-> TRUE, sortable |-> TRUE],
                   [name |-> "filepath", type |-> "String", filterable |-> TRUE],
                   [name |-> "document_url", type |-> "String",
                    filterable |-> TRUE],
                   [name |-> "content_vector", type |-> "Collection(Single)",
                    searchable |-> TRUE, vector_search_dimensions |-> 1536,
                    vector_search_profile_name |-> "vector-config"] >>,
                vector_search_named("algo-config", EmptyDict))

Absent == [name |-> << >>]

\* The name of the algorithm configuration of an index definition.
algorithm_of(definition) ==
    definition.vector_search.profiles[1].algorithm_configuration_name

\* What search_index_client.create_or_update_index can do with a definition:
\* fail for a reason of its own (network, credentials, throttling), or else
\* create the index, refuse a change of the algorithm configuration of an
\* existing index, or update the existing index.
service_outcomes(existing, definition) ==
    { "service_error",
      IF existing = Absent THEN "created"
      ELSE IF algorithm_of(existing) # algorithm_of(definition)
           THEN "algorithm_change_refused"
           ELSE "updated" }

\* The index after the service acted.
index_after(existing, definition, outcome) ==
    IF outcome \in {"created", "updated"} THEN definition ELSE existing

\* Lines 36-42: True when the call returned, False when it raised.
create_or_update_result(outcome) == PyBool(outcome \in {"created", "updated"})

IdxIdle == idx_pc = "idle" /\ index = Absent /\ idx_calls = << >>

IdxInit ==
    /\ idx_pc = "ready"
    /\ idx_calls = << >>
    /\ index \in {Absent, legacy_index,
                  SearchIndex(index_name, define_index_fields, configure_vector_search)}

\* One call of create_or_update_index: the definition is built and sent once,
\* and whatever the service does becomes True or False.
CreateOrUpdateIndex ==
    /\ idx_pc = "ready"
    /\ Len(idx_calls) < MaxIndexCalls
    /\ LET sent == SearchIndex(index_name, define_index_fields, configure_vector_search)
       IN  \E outcome \in service_outcomes(index, sent) :
              /\ index' = index_after(index, sent, outcome)
              /\ idx_calls' = Append(idx_calls,
                                     [requests |-> <<sent>>,
                                      outcome |-> outcome,
                                      before |-> index,
                                      after |-> index_after(index, sent, outcome),
                                      ret |-> create_or_update_result(outcome)])
    /\ UNCHANGED idx_pc
    /\ UNCHANGED <<batchVars, uploadVars, embedVars, enhVars, genVars, chatVars, dlVars, moreVars>>

(***************************************************************************)
(* InteractiveSearchInterface: strings and the display of results          *)
(***************************************************************************)
UpperCase == <<"A", "B", "C", "D", "E", "F", "G", "H", "I", "J", "K", "L", "M",
               "N", "O", "P", "Q", "R", "S", "T", "U", "V", "W", "X", "Y", "Z">>
LowerCase == <<"a", "b", "c", "d", "e", "f", "g", "h", "i", "j", "k", "l", "m",
               "n", "o", "p", "q", "r", "s", "t", "u", "v", "w", "x", "y", "z">>

\* str.lower()
lower(s) ==
    [k \in 1..Len(s) |->
        IF \E u \in 1..Len(UpperCase) : UpperCase[u] = s[k]
        THEN LowerCase[CHOOSE u \in 1..Len(UpperCase) : UpperCase[u] = s[k]]
        ELSE s[k]]

Digits == <<"0", "1", "2", "3", "4", "5", "6", "7", "8", "9">>

\* str.isdigit()
isdigit(s) == s # << >> /\ \A k \in 1..Len(s) : \E d \in 1..Len(Digits) : Digits[d] = s[k]

\* int(s), for a string of digits
RECURSIVE int(_)
int(s) ==
    IF s = << >> THEN 0
    ELSE int(SubSeq(s, 1, Len(s) - 1)) * 10
         + (CHOOSE d \in 1..Len(Digits) : Digits[d] = s[Len(s)]) - 1

\* haystack.rfind(needle): the highest 0-based index, or -1
rfind(haystack, needle) ==
    LET hits == { p \in 0..(Len(haystack) - Len(needle)) :
                    SubSeq(haystack, p + 1, p + Len(needle)) = needle }
    IN  IF hits = {} THEN -1 ELSE CHOOSE p \in hits : \A q \in hits : p >= q

\* haystack.find(needle): the lowest 0-based index, or -1
find(haystack, needle) ==
    LET hits == { p \in 0..(Len(haystack) - Len(needle)) :
                    SubSeq(haystack, p + 1, p + Len(needle)) = needle }
    IN  IF hits = {} THEN -1 ELSE CHOOSE p \in hits : \A q \in hits : p <= q

\* s[lo:hi], for 0 <= lo and hi <= len(s)
slice(s, lo, hi) == SubSeq(s, lo + 1, hi)

Min(a, b) == IF a < b THEN a ELSE b
Max(a, b) == IF a > b THEN a ELSE b

Ellipsis == <<".", ".", ".">>

\* content[:n] + "..." if len(content) > n else content
head_of(content, n) ==
    IF Len(content) > n THEN slice(content, 0, n) \o Ellipsis ELSE content

\* _extract_contextual_snippet
extract_contextual_snippet(content, query, context_length) ==
    IF content = << >> \/ query = << >> THEN head_of(content, 150)
    ELSE LET idx == find(lower(content), lower(query))
         IN  IF idx = -1 THEN head_of(content, 150)
             ELSE LET start == Max(0, idx - context_length \div 2)
                      end == Min(Len(content), idx + Len(query) + context_length \div 2)
                  IN  (IF start > 0 THEN Ellipsis ELSE << >>)
                      \o slice(content, start, end)
                      \o (IF end < Len(content) THEN Ellipsis ELSE << >>)

\* One printed line: what it is, the result it belongs to (0 for none), its text.
Line(kind, n, txt) == [kind |-> kind, n |-> n, text |-> txt]

\* "if value", for a str, a list or None
truthy(v) ==
    \/ v.type = "str" /\ v.val # << >>
    \/ v.type = "list" /\ v.items # << >>

\* _has_highlights
has_highlights(result) ==
    /\ "@search.highlights" \in DOMAIN result
    /\ result["@search.highlights"] # None
    /\ "content" \in DOMAIN result["@search.highlights"]
    /\ truthy(result["@search.highlights"]["content"])

\* One printed highlight of result n: its number among the highlights and
\* its text.
SnippetLine(n, pos, txt) == [kind |-> "snippet", n |-> n, pos |-> pos, text |-> txt]

\* _display_highlights: the header, then those of the first three entries
\* that are neither None nor blank, each numbered and stripped
display_highlights(result, n) ==
    LET highlights == result["@search.highlights"]["content"].items
        shown == SubSeq(highlights, 1, Min(3, Len(highlights)))
        kept == SelectSeq([k \in 1..Len(shown) |-> k],
                          LAMBDA k : truthy(shown[k]) /\ strip(shown[k].val) # << >>)
    IN  <<Line("snippets header", n, << >>)>>
        \o [j \in 1..Len(kept) |-> SnippetLine(n, kept[j], strip(shown[kept[j]].val))]

NoContentAvailable ==
    <<"N", "o", " ", "c", "o", "n", "t", "e", "n", "t", " ",
      "a", "v", "a", "i", "l", "a", "b", "l", "e">>

\* _display_content_preview
display_content_preview(result, n, query) ==
    LET content == dict_get(result, "content", PyStr(<< >>))
    IN  IF truthy(content)
        THEN <<Line("preview", n,
                    IF query # << >>
                    THEN extract_contextual_snippet(content.val, query, 150)
                    ELSE head_of(content.val, 200))>>
        ELSE <<Line("preview", n, NoContentAvailable)>>

\* _display_single_result: formatting a score that is None raises before
\* anything is printed
display_single_result(result, n, show_highlights, show_score, query) ==
    IF show_score /\ "@search.score" \in DOMAIN result
       /\ result["@search.score"] = None
    THEN [raised |-> "exception", lines |-> << >>]
    ELSE [raised |-> "none",
          lines |-> <<Line("title", n, << >>)>>
                    \o (IF show_highlights /\ has_highlights(result)
                        THEN display_highlights(result, n)
                        ELSE display_content_preview(result, n, query))
                    \o <<Line("url", n, << >>)>>]

\* The loop of _display_results from result n on.
RECURSIVE display_from(_, _, _, _, _)
display_from(rs, n, show_highlights, show_score, query) ==
    IF n > Len(rs) THEN [raised |-> "none", lines |-> <<Line("found", 0, << >>)>>]
    ELSE LET one == display_single_result(rs[n], n, show_highlights,
                                          show_score, query)
             rest == display_from(rs, n + 1, show_highlights, show_score, query)
         IN  IF one.raised # "none" THEN one
             ELSE [raised |-> rest.raised, lines |-> one.lines \o rest.lines]

\* _display_results
display_results(rs, show_highlights, show_score, query) ==
    IF rs = << >>
    THEN [raised |-> "none",
          lines |-> <<Line("results header", 0, << >>), Line("no results", 0, << >>)>>]
    ELSE LET shown == display_from(rs, 1, show_highlights, show_score, query)
         IN  [raised |-> shown.raised,
              lines |-> <<Line("results header", 0, << >>)>> \o shown.lines]

(***************************************************************************)
(* InteractiveSearchInterface: the menu loop and its actions               *)
(***************************************************************************)
PyFloat(v) == [type |-> "float", val |-> v]

TypedText(t) == [kind |-> "text", text |-> t]
\* What input() can do besides returning a line.
Interrupted == [kind |-> "interrupt"]
EndOfInput == [kind |-> "eof"]

\* Lines typed at the menu prompt.
MenuInputs ==
    { <<"q", "u", "i", "t">>,
      <<"Q", "U", "I", "T">>,
      <<" ", "E", "x", "i", "t", " ">>,
      <<"q">>,
      <<"B", "y", "e">>,
      <<"h", "e", "l", "p">>,
      <<"H", "E", "L", "P">>,
      <<"1">>,
      <<"2">>,
      <<"3">>,
      <<"4">>,
      <<"5">>,
      <<"6">>,
      <<"7">>,
      <<"0">>,
      <<"8">>,
      <<"1", "2">>,
      << >>,
      <<" ">>,
      <<"p", "u", "m", "p">> }

\* Lines typed at the prompt of an action.
QueryInputs == { << >>, <<" ">>, <<"p", "u", "m", "p">>, <<"O", "N">> }

ContentText == <<"P", "u", "m", "p", " ", "o", "n">>
LongText == Fill(201, "x")

result_of(content) ==
    "id" :> PyStr(<<"doc_", 1>>) @@ "filename" :> PyStr(<<"doc_", 1, ".pdf">>)
    @@ "content" :> content @@ "@search.score" :> PyFloat(1)

\* Results the search service can give: with and without highlights, with
\* five highlights of which one is padded and one null, with
\* highlights that are all null or blank, with null highlights, without
\* content, with null content, with a long content, with a null score, and
\* without a filename.
SearchResults ==
    { result_of(PyStr(ContentText)),
      result_of(PyStr(ContentText))
        @@ "@search.highlights" :> ("content" :> PyList(<<PyStr(<<"*", "P", "u", "m", "p", "*", " ", "o", "n">>)>>)),
      result_of(PyStr(ContentText))
        @@ "@search.highlights" :>
             ("content" :> PyList(<<PyStr(<<" ">>), None, PyStr(<< >>)>>)),
      result_of(PyStr(ContentText))
        @@ "@search.highlights" :>
             ("content" :> PyList(<<PyStr(<<" ", "a", " ">>), None, PyStr(<<"b">>),
                                    PyStr(<<"c">>), PyStr(<<"d">>)>>)),
      result_of(PyStr(ContentText)) @@ "@search.highlights" :> None,
      "id" :> PyStr(<<"doc_", 2>>) @@ "filename" :> PyStr(<<"doc_", 2, ".pdf">>),
      result_of(None),
      result_of(PyStr(LongText)),
      "@search.score" :> None @@ result_of(PyStr(ContentText)),
      "id" :> PyStr(<<"doc_", 3>>) @@ "content" :> PyStr(ContentText) }

ResultLists == UNION { [1..n -> SearchResults] : n \in 0..MaxResults }

\* What a call of search_client.search, consumed by list(), can do.
SearchOutcomes ==
    { [kind |-> "raises"], [kind |-> "interrupt"] }
    \cup { [kind |-> "results", results |-> rs] : rs \in ResultLists }

\* What generate_embedding can do for the query: a vector, None, or an
\* interrupt passing through it.
QueryEmbeddings == {"vector", "none", "interrupt"}

\* What a handler did: how it ended (none | interrupt | exception | eof),
\* what it printed, whether something failed, self.current_query after it,
\* and the requests it sent.
Handled(raised, lines, failed, query) ==
    [raised |-> raised, lines |-> lines, failed |-> failed, query |-> query,
     requests |-> << >>]

\* search_client.search(search_text=..., vector_queries=..., filter=...)
SearchRequest(search_text, vector, filter) ==
    [op |-> "search", search_text |-> search_text, vector |-> vector,
     filter |-> filter]

\* The handler sent the request before the rest happened.
sending(request, handled) ==
    [handled EXCEPT !.requests = <<request>> \o @]

Wildcard == <<"*">>

ErrorLine == Line("error", 0, << >>)

\* try: search and display; except Exception: report
search_and_display(outcome, show_highlights, show_score, query) ==
    IF outcome.kind = "interrupt" THEN Handled("interrupt", << >>, FALSE, query)
    ELSE IF outcome.kind = "raises" THEN Handled("none", <<ErrorLine>>, TRUE, query)
    ELSE LET shown == display_results(outcome.results, show_highlights,
                                      show_score, query)
         IN  IF shown.raised = "exception"
             THEN Handled("none", shown.lines \o <<ErrorLine>>, TRUE, query)
             ELSE Handled("none", shown.lines, FALSE, query)

\* A handler that first asks for a query with _get_search_input and then runs
\* the rest with the stripped query.
with_query(typed, query_before, rest) ==
    IF typed.kind = "interrupt" THEN Handled("interrupt", << >>, FALSE, query_before)
    ELSE IF typed.kind = "eof" THEN Handled("eof", << >>, TRUE, query_before)
    ELSE IF strip(typed.text) = << >>
    THEN Handled("none", <<Line("please enter", 0, << >>)>>, FALSE, query_before)
    ELSE rest

\* _keyword_search
keyword_search(typed, outcome, query_before) ==
    with_query(typed, query_before,
               sending(SearchRequest(PyStr(strip(typed.text)), FALSE, None),
                       search_and_display(outcome, TRUE, FALSE, strip(typed.text))))

\* The embedding step of _vector_search and _hybrid_search, then the search
\* with the given search text.
embed_then_search(embedding, outcome, show_highlights, query, search_text) ==
    IF embedding = "interrupt" THEN Handled("interrupt", << >>, FALSE, query)
    ELSE IF embedding = "none"
    THEN Handled("none", <<Line("embedding failed", 0, << >>)>>, TRUE, query)
    ELSE sending(SearchRequest(search_text, TRUE, None),
                 search_and_display(outcome, show_highlights, TRUE, query))

\* A variant of _vector_search without "self.current_query = query".
vector_search_keeping_query(typed, embedding, outcome, query_before) ==
    with_query(typed, query_before,
               [embed_then_search(embedding, outcome, FALSE, strip(typed.text), None)
                    EXCEPT !.query = query_before])

\* _vector_search
vector_search(typed, embedding, outcome, query_before) ==
    with_query(typed, query_before,
               embed_then_search(embedding, outcome, FALSE, strip(typed.text), None))

\* _hybrid_search
hybrid_search(typed, embedding, outcome, query_before) ==
    with_query(typed, query_before,
               embed_then_search(embedding, outcome, TRUE, strip(typed.text),
                                 PyStr(strip(typed.text))))

\* _filtered_search and _show_index_stats
coming_soon(query_before) ==
    Handled("none", <<Line("coming soon", 0, << >>)>>, FALSE, query_before)

\* The loop of _list_documents: result['id'] and result['filename'] raise
\* KeyError for a result without them.
RECURSIVE list_from(_, _)
list_from(rs, n) ==
    IF n > Len(rs) THEN [raised |-> "none", lines |-> << >>]
    ELSE IF ~({"id", "filename"} \subseteq DOMAIN rs[n])
    THEN [raised |-> "exception", lines |-> << >>]
    ELSE LET rest == list_from(rs, n + 1)
         IN  [raised |-> rest.raised,
              lines |-> <<Line("document", n, rs[n]["id"].val)>> \o rest.lines]

\* _list_documents
list_documents(outcome, query_before) ==
    sending(SearchRequest(PyStr(Wildcard), FALSE, None),
        IF outcome.kind = "interrupt"
        THEN Handled("interrupt", << >>, FALSE, query_before)
        ELSE IF outcome.kind = "raises"
        THEN Handled("none", <<ErrorLine>>, TRUE, query_before)
        ELSE LET listed == list_from(outcome.results, 1)
             IN  IF listed.raised = "exception"
                 THEN Handled("none", listed.lines \o <<ErrorLine>>, TRUE, query_before)
                 ELSE Handled("none", listed.lines \o <<Line("total", 0, << >>)>>,
                              FALSE, query_before))

\* _get_document_by_id: the prompt is outside the try, get_document inside
get_document_by_id(typed, outcome, query_before) ==
    IF typed.kind = "interrupt" THEN Handled("interrupt", << >>, FALSE, query_before)
    ELSE IF typed.kind = "eof" THEN Handled("eof", << >>, TRUE, query_before)
    ELSE IF strip(typed.text) = << >>
    THEN Handled("none", <<Line("please enter", 0, << >>)>>, FALSE, query_before)
    ELSE sending([op |-> "get_document", key |-> strip(typed.text)],
        IF outcome.kind = "interrupt"
        THEN Handled("interrupt", << >>, FALSE, query_before)
        ELSE IF outcome.kind = "raises" \/ outcome.results = << >>
        THEN Handled("none", <<ErrorLine>>, TRUE, query_before)
        ELSE LET document == outcome.results[1]
                 content == dict_get(document, "content", PyStr(<< >>))
             IN  Handled("none",
                         <<Line("details", 1, << >>)>>
                         \o (IF truthy(content)
                             THEN <<Line("preview", 1, head_of(content.val, 300))>>
                             ELSE << >>),
                         FALSE, query_before))

\* _handle_menu_choice
handle_menu_choice(choice, typed, embedding, outcome, query_before) ==
    CASE choice = 1 -> keyword_search(typed, outcome, query_before)
      [] choice = 2 -> vector_search(typed, embedding, outcome, query_before)
      [] choice = 3 -> hybrid_search(typed, embedding, outcome, query_before)
      [] choice = 4 -> coming_soon(query_before)
      [] choice = 5 -> list_documents(outcome, query_before)
      [] choice = 6 -> get_document_by_id(typed, outcome, query_before)
      [] choice = 7 -> coming_soon(query_before)
      [] OTHER -> Handled("none", <<Line("invalid option", 0, << >>)>>, FALSE,
                          query_before)

\* _perform_direct_search
perform_direct_search(query, outcome) ==
    sending(SearchRequest(PyStr(query), FALSE, None),
            search_and_display(outcome, TRUE, FALSE, query))

\* A variant of _should_exit without lower().
should_exit_case_sensitive(input_str) ==
    input_str \in {<<"q", "u", "i", "t">>, <<"e", "x", "i", "t">>, <<"q">>, <<"b", "y", "e">>}

\* _should_exit
should_exit(input_str) ==
    lower(input_str) \in {<<"q", "u", "i", "t">>, <<"e", "x", "i", "t">>, <<"q">>, <<"b", "y", "e">>}

\* A variant of the except clauses of start_chat in which an exception other
\* than KeyboardInterrupt is not caught.
chat_after_uncaught(raised) ==
    CASE raised = "interrupt" -> "returned"
      [] raised \in {"exception", "eof"} -> "raised"
      [] OTHER -> "menu"

\* The except clauses of start_chat: KeyboardInterrupt breaks the loop, any
\* other exception is reported and the loop goes on.
chat_after(raised) == IF raised = "interrupt" THEN "returned" ELSE "menu"

\* What start_chat prints for the way the body of the loop ended.
chat_report(raised) ==
    CASE raised = "interrupt" -> <<Line("goodbye", 0, << >>)>>
      [] raised \in {"exception", "eof"} -> <<ErrorLine>>
      [] OTHER -> << >>

\* What happened in the pass, for the record.
chat_event_of(handled) ==
    CASE handled.raised = "interrupt" -> "interrupted"
      [] handled.failed -> "failed"
      [] OTHER -> "none"

\* No line was read at the prompt of an action.
NoLine == [kind |-> "no line"]

ChatIdle ==
    /\ chat_pc = "idle" /\ current_query = << >> /\ chat_choice = << >>
    /\ chat_turns = 0 /\ chat_out = << >> /\ chat_event = "none"
    /\ chat_typed = NoLine /\ chat_requests = << >> /\ chat_eof = FALSE

ChatInit ==
    /\ chat_pc = "menu" /\ current_query = << >> /\ chat_choice = << >>
    /\ chat_turns = 0 /\ chat_out = << >> /\ chat_event = "none"
    /\ chat_typed = NoLine /\ chat_requests = << >> /\ chat_eof = FALSE

\* The loop ends the pass as the handler's end tells; typed is the line read
\* at the prompt of the action, if it has one.
ChatEndPass(handled, typed) ==
    /\ chat_pc' = chat_after(handled.raised)
    /\ current_query' = handled.query
    /\ chat_out' = chat_out \o handled.lines \o chat_report(handled.raised)
    /\ chat_event' = chat_event_of(handled)
    /\ chat_typed' = typed
    /\ chat_requests' = handled.requests
    /\ chat_eof' = (chat_eof \/ handled.raised = "eof")
    /\ UNCHANGED <<chat_choice, chat_turns>>
    /\ UNCHANGED <<batchVars, uploadVars, embedVars, enhVars, genVars, idxVars, dlVars, moreVars>>

\* Lines 25-26: the menu is printed and a line is read at the menu prompt.
ChatPrompt ==
    /\ chat_pc = "menu"
    /\ chat_turns < MaxTurns
    /\ chat_turns' = chat_turns + 1
    /\ \E typed \in {TypedText(t) : t \in MenuInputs} \cup {Interrupted, EndOfInput} :
          IF typed.kind = "text"
          THEN /\ chat_choice' = strip(typed.text)
               /\ chat_pc' = "chosen"
               /\ chat_out' = <<Line("menu", 0, << >>)>>
               /\ chat_event' = "none"
               /\ UNCHANGED chat_eof
          ELSE /\ chat_pc' = chat_after(typed.kind)
               /\ chat_out' = <<Line("menu", 0, << >>)>> \o chat_report(typed.kind)
               /\ chat_event' = IF typed.kind = "eof" THEN "failed" ELSE "interrupted"
               /\ chat_eof' = (chat_eof \/ typed.kind = "eof")
               /\ UNCHANGED chat_choice
    /\ chat_typed' = NoLine
    /\ chat_requests' = << >>
    /\ UNCHANGED current_query
    /\ UNCHANGED <<batchVars, uploadVars, embedVars, enhVars, genVars, idxVars, dlVars, moreVars>>

\* Lines 28-29: a quit command breaks the loop.
ChatExit ==
    /\ chat_pc = "chosen"
    /\ should_exit(chat_choice)
    /\ chat_pc' = "returned"
    /\ chat_event' = "quit"
    /\ UNCHANGED <<current_query, chat_choice, chat_turns, chat_out, chat_typed,
                   chat_requests, chat_eof>>
    /\ UNCHANGED <<batchVars, uploadVars, embedVars, enhVars, genVars, idxVars, dlVars, moreVars>>

\* Lines 30-31: help.
ChatHelp ==
    /\ chat_pc = "chosen"
    /\ ~should_exit(chat_choice)
    /\ chat_choice = <<"h", "e", "l", "p">>
    /\ ChatEndPass(Handled("none", <<Line("help", 0, << >>)>>, FALSE, current_query),
                   NoLine)

\* Lines 32-33: a number from 1 to 7 runs the handler of the menu option.
ChatMenuChoice ==
    /\ chat_pc = "chosen"
    /\ ~should_exit(chat_choice)
    /\ chat_choice # <<"h", "e", "l", "p">>
    /\ isdigit(chat_choice) /\ 1 <= int(chat_choice) /\ int(chat_choice) <= 7
    /\ \E typed \in {TypedText(t) : t \in QueryInputs} \cup {Interrupted, EndOfInput},
          embedding \in QueryEmbeddings, outcome \in SearchOutcomes :
          ChatEndPass(handle_menu_choice(int(chat_choice), typed, embedding,
                                         outcome, current_query),
                      IF int(chat_choice) \in {1, 2, 3, 6} THEN typed ELSE NoLine)

\* Lines 34-35: anything else is searched for as it is.
ChatDirectSearch ==
    /\ chat_pc = "chosen"
    /\ ~should_exit(chat_choice)
    /\ chat_choice # <<"h", "e", "l", "p">>
    /\ ~(isdigit(chat_choice) /\ 1 <= int(chat_choice) /\ int(chat_choice) <= 7)
    /\ \E outcome \in SearchOutcomes :
          ChatEndPass(perform_direct_search(chat_choice, outcome), NoLine)

(***************************************************************************)
(* DocumentProcessor.download_document, called on its own                  *)
(***************************************************************************)
DlIdle ==
    /\ dl_pc = "idle" /\ dl_response = NotCalled /\ dl_written = FALSE
    /\ dl_return = NoReturn

DlInit ==
    /\ dl_pc = "start" /\ dl_response = NotCalled /\ dl_written = FALSE
    /\ dl_return = NoReturn

\* Lines 22-57: the request, raise_for_status, the body written chunk by
\* chunk (which can fail), and the two except clauses that return False.
DownloadCall ==
    /\ dl_pc = "start"
    /\ \E resp \in HttpResponses, write_ok \in BOOLEAN :
          /\ dl_response' = resp
          /\ dl_written' = (resp.kind = "response"
                            /\ ~raise_for_status(resp.status) /\ write_ok)
          /\ dl_return' = PyBool(download_document(resp, write_ok))
    /\ dl_pc' = "done"
    /\ UNCHANGED <<batchVars, uploadVars, embedVars, enhVars, genVars, idxVars,
                   chatVars, moreVars>>

(***************************************************************************)
(* InteractiveSearchInterface._extract_contextual_snippet, called on its   *)
(* own                                                                     *)
(***************************************************************************)
PumpText == <<"P", "u", "m", "p">>

\* Lengths of the text before and after the word: none, shorter than the
\* half-window, exactly it, longer than it, and longer than the fallback.
SnipPads == {0, 1, 75, 76, 200}

\* Contents: the word between two paddings, a content with the word twice, and
\* contents without it around the 150 characters of the fallback.
SnipContents ==
    { Fill(a, "x") \o PumpText \o Fill(b, "y") : a \in SnipPads, b \in SnipPads }
    \cup { << >>, PumpText \o Fill(160, "x") \o PumpText \o Fill(160, "y"),
           Fill(150, "x"), Fill(151, "x") }

SnipQueries == { << >>, <<"p", "u", "m", "p">>, <<"P", "U", "M", "P">>, <<"z", "z">>, <<"y">> }

\* context_length: the default, and an odd one.
SnipContexts == {150, 5}

SnipIdle ==
    /\ snip_pc = "idle" /\ snip_content = << >> /\ snip_query = << >>
    /\ snip_context = 0 /\ snip_out = NoReturn

SnipInit ==
    /\ snip_pc = "start"
    /\ snip_content \in SnipContents
    /\ snip_query \in SnipQueries
    /\ snip_context \in SnipContexts
    /\ snip_out = NoReturn

ExtractContextualSnippet ==
    /\ snip_pc = "start"
    /\ snip_out' = PyStr(extract_contextual_snippet(snip_content, snip_query,
                                                    snip_context))
    /\ snip_pc' = "done"
    /\ UNCHANGED <<snip_content, snip_query, snip_context>>
    /\ UNCHANGED <<batchVars, uploadVars, embedVars, enhVars, genVars, idxVars,
                   chatVars, dlVars, legacyVars>>

(***************************************************************************)
(* InteractiveSearchChat of interactive_search.py: the filtered search and *)
(* the direct search, each called on its own                               *)
(***************************************************************************)
\* The highlight marker put around a match (the fire sign of the source).
Marker == "*"

\* re.sub(re.escape(search_term), marker + search_term + marker, s,
\*        flags=re.IGNORECASE), for a search_term that is not empty
RECURSIVE mark_all(_, _)
mark_all(s, search_term) ==
    LET p == find(lower(s), lower(search_term))
    IN  IF p = -1 THEN s
        ELSE slice(s, 0, p) \o <<Marker>> \o search_term \o <<Marker>>
             \o mark_all(slice(s, p + Len(search_term), Len(s)), search_term)

\* extract_contextual_snippet of interactive_search.py: lines 39-62 are those
\* of _extract_contextual_snippet, lines 64-71 mark the matches.
legacy_extract_contextual_snippet(content, search_term, context_length) ==
    IF content = << >> \/ search_term = << >> THEN head_of(content, 150)
    ELSE IF find(lower(content), lower(search_term)) = -1 THEN head_of(content, 150)
    ELSE mark_all(extract_contextual_snippet(content, search_term, context_length),
                  search_term)

\* The condition of lines 368-371: a content entry that is not None.
legacy_has_highlights(result) ==
    /\ "@search.highlights" \in DOMAIN result
    /\ result["@search.highlights"] # None
    /\ "content" \in DOMAIN result["@search.highlights"]
    /\ result["@search.highlights"]["content"] # None

\* Lines 373-377: the header, then those of the first two entries that are
\* neither None nor empty, each numbered and as it is.
legacy_display_highlights(result, n) ==
    LET highlights == result["@search.highlights"]["content"].items
        shown == SubSeq(highlights, 1, Min(2, Len(highlights)))
        kept == SelectSeq([k \in 1..Len(shown) |-> k], LAMBDA k : truthy(shown[k]))
    IN  <<Line("snippets header", n, << >>)>>
        \o [j \in 1..Len(kept) |-> SnippetLine(n, kept[j], shown[kept[j]].val)]

\* Lines 380-387
legacy_display_preview(result, n, query) ==
    LET content == dict_get(result, "content", PyStr(<< >>))
    IN  <<Line("preview", n,
               IF truthy(content) /\ query # << >>
               THEN legacy_extract_contextual_snippet(content.val, query, 200)
               ELSE IF truthy(content) THEN head_of(content.val, 150)
               ELSE NoContentAvailable)>>

\* display_search_results_with_highlights from result n on, without a score
RECURSIVE legacy_highlights_from(_, _, _)
legacy_highlights_from(rs, n, query) ==
    IF n > Len(rs) THEN << >>
    ELSE <<Line("title", n, << >>)>>
         \o (IF legacy_has_highlights(rs[n])
             THEN legacy_display_highlights(rs[n], n)
             ELSE legacy_display_preview(rs[n], n, query))
         \o <<Line("url", n, << >>)>>
         \o legacy_highlights_from(rs, n + 1, query)

\* The last line of a display.
legacy_count_line(rs) ==
    IF rs = << >> THEN Line("no results", 0, << >>) ELSE Line("found", 0, << >>)

\* display_search_results_with_highlights
display_search_results_with_highlights(rs, query) ==
    [raised |-> "none",
     lines |-> <<Line("results header", 0, << >>)>>
               \o legacy_highlights_from(rs, 1, query)
               \o <<legacy_count_line(rs)>>]

\* display_search_results_basic from result n on, without a score: len() of
\* a content that is None raises
RECURSIVE legacy_basic_from(_, _)
legacy_basic_from(rs, n) ==
    IF n > Len(rs) THEN [raised |-> "none", lines |-> <<legacy_count_line(rs)>>]
    ELSE LET content == dict_get(rs[n], "content", PyStr(<< >>))
             rest == legacy_basic_from(rs, n + 1)
         IN  IF content = None
             THEN [raised |-> "exception", lines |-> <<Line("title", n, << >>)>>]
             ELSE [raised |-> rest.raised,
                   lines |-> <<Line("title", n, << >>),
                               Line("preview", n, head_of(content.val, 150)),
                               Line("url", n, << >>)>> \o rest.lines]

\* display_search_results_basic
display_search_results_basic(rs) ==
    LET shown == legacy_basic_from(rs, 1)
    IN  [raised |-> shown.raised,
         lines |-> <<Line("results header", 0, << >>)>> \o shown.lines]

\* The try of a handler around the search and the display: an exception is
\* reported, an interrupt passes.
legacy_search_and_display(outcome, with_highlights, query) ==
    IF outcome.kind = "interrupt" THEN [raised |-> "interrupt", lines |-> << >>]
    ELSE IF outcome.kind = "raises" THEN [raised |-> "none", lines |-> <<ErrorLine>>]
    ELSE LET shown == IF with_highlights
                      THEN display_search_results_with_highlights(outcome.results, query)
                      ELSE display_search_results_basic(outcome.results)
         IN  IF shown.raised = "exception"
             THEN [raised |-> "none", lines |-> shown.lines \o <<ErrorLine>>]
             ELSE shown

\* f"{filter_field} eq '{filter_value}'"
filter_expression(filter_field, filter_value) ==
    filter_field \o <<" ", "e", "q", " ", "'">> \o filter_value \o <<"'">>

\* What input() did at the prompts that were reached, NoLine for the others.
lines_read(typed) ==
    [k \in 1..Len(typed) |->
        IF \A j \in 1..(k - 1) : typed[j].kind = "text" THEN typed[k] ELSE NoLine]

\* perform_filtered_search, with what input() does at its three prompts
perform_filtered_search(typed, outcome, query_before) ==
    LET intro == <<Line("filter fields", 0, << >>)>>
        failing == { k \in 1..3 : typed[k].kind # "text" }
    IN  IF failing # {}
        THEN [raised |-> typed[CHOOSE k \in failing : \A j \in failing : k <= j].kind,
              lines |-> intro, query |-> query_before, requests |-> << >>]
        ELSE LET filter_field == strip(typed[1].text)
                 filter_value == strip(typed[2].text)
                 search_query == strip(typed[3].text)
                 expression == filter_expression(filter_field, filter_value)
                 request == SearchRequest(PyStr(IF search_query # << >>
                                                THEN search_query ELSE Wildcard),
                                          FALSE, PyStr(expression))
                 shown == legacy_search_and_display(outcome, search_query # << >>,
                                                    search_query)
             IN  IF filter_field = << >> \/ filter_value = << >>
                 THEN [raised |-> "none",
                       lines |-> intro \o <<Line("please provide", 0, << >>)>>,
                       query |-> query_before, requests |-> << >>]
                 ELSE [raised |-> shown.raised, lines |-> intro \o shown.lines,
                       query |-> search_query, requests |-> <<request>>]

\* perform_direct_search of interactive_search.py
legacy_perform_direct_search(query, outcome) ==
    LET shown == legacy_search_and_display(outcome, TRUE, query)
    IN  [raised |-> shown.raised, lines |-> shown.lines, query |-> query,
         requests |-> <<SearchRequest(PyStr(query), FALSE, None)>>]

\* Lines typed at the three prompts of the filtered search.
FieldInputs ==
    { TypedText(<< >>), TypedText(<<" ", "f", "i", "l", "e", "n", "a", "m", "e", " ">>), Interrupted, EndOfInput }
ValueInputs ==
    { TypedText(<<" ">>), TypedText(<<"d", "o", "c", "_", "1", ".", "p", "d", "f">>), EndOfInput }
FilterQueryInputs ==
    { TypedText(<< >>), TypedText(<<"p", "u", "m", "p">>), TypedText(<<"O", "N">>),
      EndOfInput }

\* Lines that start_chat passes to perform_direct_search.
DirectQueries == { << >>, <<"p", "u", "m", "p">>, <<"O", "N">> }

LegacyIdle ==
    /\ lc_pc = "idle" /\ current_search_query = << >> /\ lc_typed = << >>
    /\ lc_requests = << >> /\ lc_out = << >>

\* __init__ of InteractiveSearchChat: no query yet.
LegacyInit ==
    /\ lc_pc = "start" /\ current_search_query = << >> /\ lc_typed = << >>
    /\ lc_requests = << >> /\ lc_out = << >>

\* The handler ends: start_chat has no try, so what a handler lets pass ends it.
LegacyEnd(handled) ==
    /\ lc_pc' = IF handled.raised = "none" THEN "done" ELSE "raised"
    /\ current_search_query' = handled.query
    /\ lc_requests' = handled.requests
    /\ lc_out' = handled.lines
    /\ UNCHANGED <<batchVars, uploadVars, embedVars, enhVars, genVars, idxVars,
                   chatVars, dlVars, snipVars>>

\* Option 4: perform_filtered_search
LegacyFilteredSearch ==
    /\ lc_pc = "start"
    /\ \E f \in FieldInputs, v \in ValueInputs, q \in FilterQueryInputs,
          outcome \in SearchOutcomes :
          /\ lc_typed' = lines_read(<<f, v, q>>)
          /\ LegacyEnd(perform_filtered_search(<<f, v, q>>, outcome,
                                               current_search_query))

\* A line that is no command: perform_direct_search
LegacyDirectSearch ==
    /\ lc_pc = "start"
    /\ \E query \in DirectQueries, outcome \in SearchOutcomes :
          /\ lc_typed' = <<TypedText(query)>>
          /\ LegacyEnd(legacy_perform_direct_search(query, outcome))

MoreIdle == SnipIdle /\ LegacyIdle

LaterIdle == EnhIdle /\ GenIdle /\ IdxIdle /\ ChatIdle /\ DlIdle /\ MoreIdle

(***************************************************************************)
(* The specification: one component runs, the others are idle.             *)
(***************************************************************************)
Init ==
    \/ BatchInit /\ UploadIdle /\ EmbedIdle /\ LaterIdle
    \/ BatchIdle /\ UploadInit /\ EmbedIdle /\ LaterIdle
    \/ BatchIdle /\ UploadIdle /\ EmbedInit /\ LaterIdle
    \/ BatchIdle /\ UploadIdle /\ EnhInit /\ GenIdle /\ IdxIdle /\ ChatIdle /\ DlIdle /\ MoreIdle
    \/ BatchIdle /\ UploadIdle /\ EmbedIdle /\ EnhIdle /\ GenInit /\ IdxIdle /\ ChatIdle /\ DlIdle /\ MoreIdle
    \/ BatchIdle /\ UploadIdle /\ EmbedIdle /\ EnhIdle /\ GenIdle /\ IdxInit /\ ChatIdle /\ DlIdle /\ MoreIdle
    \/ BatchIdle /\ UploadIdle /\ EmbedIdle /\ EnhIdle /\ GenIdle /\ IdxIdle /\ ChatInit /\ DlIdle /\ MoreIdle
    \/ BatchIdle /\ UploadIdle /\ EmbedIdle /\ EnhIdle /\ GenIdle /\ IdxIdle /\ ChatIdle
       /\ DlInit /\ MoreIdle
    \/ BatchIdle /\ UploadIdle /\ EmbedIdle /\ EnhIdle /\ GenIdle /\ IdxIdle /\ ChatIdle
       /\ DlIdle /\ SnipInit /\ LegacyIdle
    \/ BatchIdle /\ UploadIdle /\ EmbedIdle /\ EnhIdle /\ GenIdle /\ IdxIdle /\ ChatIdle
       /\ DlIdle /\ SnipIdle /\ LegacyInit

Next ==
    \/ CreateTempFile
    \/ CreateTempFileRaises
    \/ DownloadDocument
    \/ ExtractContent
    \/ BuildDocument
    \/ BatchReturn
    \/ CleanupTempFiles
    \/ UploadNothing
    \/ UploadValidate
    \/ UploadAnswer
    \/ BatchStart
    \/ EmbedItem
    \/ BatchEnd
    \/ EmbedReturn
    \/ EnhanceDocuments
    \/ GenerateEmbeddingCall
    \/ GenerateEmbeddingAnswer
    \/ CreateOrUpdateIndex
    \/ ChatPrompt
    \/ ChatExit
    \/ ChatHelp
    \/ ChatMenuChoice
    \/ ChatDirectSearch
    \/ DownloadCall
    \/ ExtractContextualSnippet
    \/ LegacyFilteredSearch
    \/ LegacyDirectSearch

Spec == Init /\ [][Next]_vars

(***************************************************************************)
(* Properties.                                                             *)
(***************************************************************************)
BatchTerminated == batch_pc \in {"done", "raised"}

\* The n-th position of the input whose item was logged as a success.
NthSuccess(n) ==
    CHOOSE k \in 1..Len(batch_log) :
        /\ batch_log[k] = "success"
        /\ Cardinality({m \in 1..k : batch_log[m] = "success"}) = n

SuccessCount == Cardinality({k \in 1..Len(batch_log) : batch_log[k] = "success"})

\* C1: no failure while handling an item (acquiring its temporary file,
\* downloading, extracting, building its record) keeps a later item from
\* being handled: when the call is over, no item after the first unlogged
\* one is left untouched, and the call has returned the documents built.
C1_NoItemFailureStopsBatch ==
    /\ \A j \in 1..Len(urls) :
          BatchTerminated => j <= Len(batch_log) + 1
    /\ (BatchTerminated /\ Len(batch_log) = Len(urls)) =>
          batch_return = processed_docs

\* C2: once the handling of an item has ended, on whatever path, the
\* temporary file acquired for it no longer exists.
C2_TempFileGoneAfterItem ==
    \A k \in 1..Len(batch_log) : temp_name(k) \notin files

\* C3: the id of a returned document is doc_<k> for the 1-based position k of
\* its URL, whatever failed before it; the returned documents are in input
\* order and their ids are pairwise distinct.
C3_PositionalIds ==
    batch_pc = "done" =>
        /\ Len(batch_return) = SuccessCount
        /\ \A n \in 1..Len(batch_return) :
              /\ batch_return[n].id = <<"doc_", NthSuccess(n)>>
              /\ batch_return[n].document_url = urls[NthSuccess(n)]
        /\ \A m, n \in 1..Len(batch_return) :
              m < n => /\ batch_return[m].id[2] < batch_return[n].id[2]
                       /\ batch_return[m].id # batch_return[n].id

C3_Witness ==
    /\ batch_pc = "done"
    /\ Len(urls) = 3
    /\ batch_log = <<"download", "success", "success">>
    /\ batch_return[1].id = <<"doc_", 2>>
    /\ batch_return[2].id = <<"doc_", 3>>

\* C4: the value returned has, for every input position, an outcome saying
\* whether the item succeeded and, if not, at which stage it failed.
C4_OutcomePerPosition ==
    batch_pc = "done" =>
        \A k \in 1..Len(urls) :
            \E n \in 1..Len(batch_return) :
                /\ batch_return[n].id = <<"doc_", k>>
                /\ batch_log[k] # "success" =>
                      /\ "stage" \in DOMAIN batch_return[n]
                      /\ batch_return[n].stage = batch_log[k]

\* What upload_documents handed to the index: nothing when it made no call.
SentDocs == IF index_called THEN valid_docs ELSE << >>

\* C5: no document with empty content is returned by process_documents_batch
\* or sent to the index by upload_documents; an item whose extraction failed
\* or gave empty text has no document.
C5_NoEmptyContent ==
    /\ \A n \in 1..Len(processed_docs) : processed_docs[n].content # << >>
    /\ batch_pc = "done" =>
          /\ \A n \in 1..Len(batch_return) : batch_return[n].content # << >>
          /\ \A k \in 1..Len(urls) :
                batch_log[k] = "extraction" =>
                    \A n \in 1..Len(batch_return) :
                        batch_return[n].id # <<"doc_", k>>
    /\ \A n \in 1..Len(SentDocs) :
          "content" \in DOMAIN SentDocs[n] /\ SentDocs[n].content # << >>

C5_Witness ==
    /\ batch_pc = "done"
    /\ Len(urls) = 2
    /\ batch_log = <<"extraction", "success">>
    /\ Len(batch_return) = 1

\* The uploadable documents, as the data model states them.
Uploadable(doc) ==
    /\ "id" \in DOMAIN doc /\ doc.id # << >>
    /\ "content" \in DOMAIN doc /\ doc.content # << >>
    /\ "content_vector" \in DOMAIN doc =>
          /\ doc.content_vector # None
          /\ Len(doc.content_vector.items) = 1536

\* C6: upload_documents sends exactly the input documents, in input order,
\* whose id and content are non-empty and whose content_vector, when present,
\* is a list of the configured dimension; the others are never sent and do
\* not keep the valid ones from being sent.
C6_SendsExactlyValid ==
    upload_pc \in {"sent", "done"} => SentDocs = SelectSeq(documents, Uploadable)

C6_Witness ==
    /\ upload_pc = "sent"
    /\ Len(documents) = 2
    /\ ~Uploadable(documents[1])
    /\ "content_vector" \in DOMAIN documents[1]
    /\ valid_docs = <<documents[2]>>

\* C7 as stated: overall success exactly when every document sent was
\* reported as succeeded; failure if one failed or the call raised.
C7_SuccessIffAllSentSucceeded ==
    upload_pc = "done" =>
        (upload_return.val <=>
            (~index_raised /\ \A k \in 1..Len(SentDocs) : results[k]))

\* C7 as amended: overall success exactly when the input is empty, or the
\* index was called, did not raise and reported every document sent as
\* succeeded (a non-empty input with no valid document is a failure).
C7_SuccessIffEmptyOrAllSucceeded ==
    upload_pc = "done" =>
        (upload_return.val <=>
            \/ documents = << >>
            \/ /\ index_called
               /\ ~index_raised
               /\ \A k \in 1..Len(valid_docs) : results[k])

C7_Witness ==
    /\ upload_pc = "done"
    /\ Len(valid_docs) = 2
    /\ results = <<TRUE, FALSE>>
    /\ upload_return = PyBool(FALSE)

\* C8: when some of the documents sent failed, the value returned names the
\* documents that failed.
C8_ReturnNamesFailedDocuments ==
    (upload_pc = "done" /\ index_called /\ ~index_raised
        /\ \E k \in 1..Len(results) : ~results[k]) =>
        /\ "failed" \in DOMAIN upload_return
        /\ upload_return.failed = {k \in 1..Len(results) : ~results[k]}

\* C9: an empty set of documents to upload is reported as a failure.
C9_EmptySetIsFailure ==
    (upload_pc = "done" /\ documents = << >>) => upload_return = PyBool(FALSE)

\* Texts generate_embedding sends nothing for.
Blank(t) == \A k \in 1..Len(t) : t[k] \in Whitespace

RequestEvents == SelectSeq(embed_events, LAMBDA e : e.ev = "request")

NonBlankTexts == SelectSeq(texts, LAMBDA t : ~Blank(t))

\* C10: generate_batch_embeddings returns a list as long as the input; its
\* position k holds the embedding the service gave for text k, or None when
\* embedding text k failed; no position depends on another.
C10_AlignedEmbeddings ==
    embed_pc = "done" =>
        /\ Len(embed_return) = Len(texts)
        /\ \A k \in 1..Len(texts) :
              /\ Blank(texts[k]) <=> served[k] = NotCalled
              /\ embed_return[k] =
                    IF served[k].kind = "data"
                    THEN PyList(served[k].embedding) ELSE None
        /\ Len(RequestEvents) = Len(NonBlankTexts)
        /\ \A r \in 1..Len(RequestEvents) :
              RequestEvents[r].input = strip(NonBlankTexts[r])

C10_Witness ==
    /\ embed_pc = "done"
    /\ Len(texts) = 3
    /\ batch_size = 2
    /\ served[1].kind = "data"
    /\ served[2].kind = "raises"
    /\ served[3].kind = "data"
    /\ served[1].embedding # served[3].embedding
    /\ embed_return[2] = None
    /\ embed_return[3] = PyList(served[3].embedding)

\* The positions whose text the service answered with a vector.
Embedded == {k \in 1..Len(served) : served[k].kind = "data"}

\* The n-th of them.
NthEmbedded(n) ==
    CHOOSE k \in Embedded : Cardinality({m \in Embedded : m <= k}) = n

AttemptsAndPauses ==
    SelectSeq(embed_events, LAMBDA e : e.ev \in {"attempt", "sleep"})

\* C12: the embedding attempts are made one after another in input order;
\* between two consecutive attempts there is exactly one pause, the short one
\* inside a batch and the long one when the second text starts a new batch;
\* no pause follows the last attempt.
C12_OnePauseBetweenAttempts ==
    embed_pc = "done" =>
        /\ Len(AttemptsAndPauses) =
              IF texts = << >> THEN 0 ELSE 2 * Len(texts) - 1
        /\ \A k \in 1..Len(texts) :
              AttemptsAndPauses[2 * k - 1] = [ev |-> "attempt", pos |-> k]
        /\ \A k \in 1..(Len(texts) - 1) :
              AttemptsAndPauses[2 * k] =
                 [ev |-> "sleep",
                  ms |-> IF k % batch_size = 0 THEN 1000 ELSE 100]

C12_Witness ==
    /\ embed_pc = "done"
    /\ Len(texts) = 3
    /\ batch_size = 2
    /\ AttemptsAndPauses[2].ms = 100
    /\ AttemptsAndPauses[4].ms = 1000

\* The text was submitted to the embedding service.
Submitted == gen_pc \in {"called", "done"} /\ gen_requests # << >>

\* The prefix of the argument that _truncate_text keeps for a long text.
KeptPrefix == SubSeq(gen_text, 1, 8191 * 4)

\* C13 as stated: for a text longer than token-budget x 4 characters, the
\* string submitted to the embedding service has exactly token-budget x 4
\* characters and is the prefix of the input of that length.
C13_SubmitsExactPrefix ==
    (Submitted /\ Len(gen_text) > 8191 * 4) =>
        /\ Len(gen_requests[1]) = 8191 * 4
        /\ gen_requests[1] = KeptPrefix

\* C13, amended: for a text longer than token-budget x 4 characters, the
\* string submitted is the prefix of that length with the whitespace at its
\* two ends removed: never longer than the budget, equal to the prefix when
\* the prefix neither begins nor ends with whitespace, shorter otherwise.
C13_SubmitsStrippedPrefix ==
    (Submitted /\ Len(gen_text) > 8191 * 4) =>
        LET sent == gen_requests[1]
            kept == KeptPrefix
            lead == CHOOSE n \in 0..Len(kept) :
                        /\ n < Len(kept) => kept[n + 1] \notin Whitespace
                        /\ \A k \in 1..n : kept[k] \in Whitespace
        IN  /\ Len(sent) <= 8191 * 4
            /\ sent # << >> =>
                  /\ sent[1] \notin Whitespace
                  /\ sent[Len(sent)] \notin Whitespace
                  /\ sent = SubSeq(kept, lead + 1, lead + Len(sent))
                  /\ \A k \in (lead + Len(sent) + 1)..Len(kept) :
                        kept[k] \in Whitespace
            /\ sent = << >> => lead = Len(kept)
            /\ (kept[1] \notin Whitespace
                /\ kept[Len(kept)] \notin Whitespace) => sent = kept

\* A long text whose kept prefix begins with a space was submitted, one
\* character short of the budget.
C13_Witness ==
    /\ Submitted
    /\ Len(gen_text) = 8191 * 4 + 1
    /\ gen_text[1] = " "
    /\ Len(gen_requests[1]) = 8191 * 4 - 1

\* C14 as stated: a vector that generate_embedding returns as a success has
\* the configured length and every component in the accepted range; a service
\* response that fails either test is returned as None.
C14_SuccessesAreValid ==
    (gen_pc = "done" /\ gen_return # None) =>
        /\ Len(gen_return.items) = 1536
        /\ \A k \in 1..Len(gen_return.items) :
              -1000000 < gen_return.items[k] /\ gen_return.items[k] < 1000000

\* C15: generate_embedding called with an empty or whitespace-only text
\* returns None and sends nothing to the embedding service; a call in which
\* the service raises returns None; every call ends with a returned value.
C15_BlankOrFailingIsNone ==
    gen_pc = "done" =>
        /\ gen_return # NoReturn
        /\ Blank(gen_text) =>
              /\ gen_return = None
              /\ gen_requests = << >>
              /\ gen_response = NotCalled
        /\ gen_response = [kind |-> "raises"] => gen_return = None

\* A whitespace-only text was answered with None.
C15_Witness ==
    /\ gen_pc = "done"
    /\ gen_text = <<"\n", "\t">>
    /\ gen_return = None
    /\ gen_requests = << >>

\* The calls of create_or_update_index that the service refused because the
\* algorithm configuration of the existing index cannot be changed.
Refused(k) == idx_calls[k].outcome = "algorithm_change_refused"

\* C16 as stated: a call refused because the algorithm configuration cannot be
\* changed returns something no call with another outcome returns, sends its
\* definition once, and leaves the index as it was.
C16_RefusalIsDistinct ==
    \A a \in 1..Len(idx_calls) :
        Refused(a) =>
            /\ Len(idx_calls[a].requests) = 1
            /\ idx_calls[a].after = idx_calls[a].before
            /\ \A b \in 1..Len(idx_calls) :
                  ~Refused(b) => idx_calls[a].ret # idx_calls[b].ret

ErrorReported ==
    \E k \in 1..Len(chat_out) : chat_out[k].kind \in {"error", "embedding failed"}

\* C18: when something fails in a pass of the menu loop (the search raises,
\* the embedding fails, displaying raises, a prompt of the action fails), no
\* exception leaves start_chat: the error is reported, the loop is back at
\* the menu, and the next pass starts by printing the menu with the stored
\* query as the failed pass left it.
C18_FailureKeepsSession ==
    /\ [](chat_pc # "raised")
    /\ [](chat_event = "failed" => chat_pc = "menu" /\ ErrorReported)
    /\ [][chat_event = "failed" =>
            /\ chat_out'[1].kind = "menu"
            /\ current_query' = current_query]_vars

\* A hybrid search displayed one result, failed on the next, and the loop is
\* back at the menu.
C18_Witness ==
    /\ chat_pc = "menu"
    /\ chat_event = "failed"
    /\ chat_choice = <<"3">>
    /\ \E k \in 1..Len(chat_out) : chat_out[k].kind = "title"
    /\ chat_out[Len(chat_out)].kind = "error"

\* Spellings of the quit commands.
QuitSpellings ==
    { <<"q", "u", "i", "t">>, <<"Q", "U", "I", "T">>, <<"E", "x", "i", "t">>, <<"q">>, <<"B", "y", "e">> }

\* C19: once the line read at the menu prompt is a quit command in any
\* letter case, or an interrupt arrived at a prompt or during an action,
\* start_chat has returned, with no exception, and nothing more happens.
C19_QuitAndInterruptEndLoop ==
    /\ [](chat_pc # "raised")
    /\ []((chat_pc # "chosen" /\ chat_choice \in QuitSpellings) => chat_pc = "returned")
    /\ [](chat_event = "interrupted" =>
            chat_pc = "returned" /\ chat_out[Len(chat_out)].kind = "goodbye")
    /\ [][chat_pc = "returned" => UNCHANGED chatVars]_vars

\* The loop ended on " Exit " in the second pass.
C19_Witness ==
    /\ chat_pc = "returned"
    /\ chat_event = "quit"
    /\ chat_turns = 2
    /\ chat_choice = <<"E", "x", "i", "t">>

\* C20 as stated: every result displayed has a preview: a highlight snippet,
\* or a content preview, which is 'No content available' at the least.
C20_EveryResultHasPreview ==
    \A k \in 1..Len(chat_out) :
        chat_out[k].kind = "title" =>
            \E j \in 1..Len(chat_out) :
                /\ chat_out[j].n = chat_out[k].n
                /\ chat_out[j].kind \in {"snippet", "preview"}

\* C25 as stated: download_document returns, and returns True exactly when
\* the response status is 2xx and the whole body was written; for any other
\* status, a transport error or a timeout it returns False.
C25_SuccessIffOkAndWritten ==
    /\ dl_pc # "raised"
    /\ dl_pc = "done" =>
          (dl_return = PyBool(TRUE)
           <=> /\ dl_response.kind = "response"
               /\ dl_response.status >= 200 /\ dl_response.status < 300
               /\ dl_written)

\* The metadata of the item built last carries a title that is not None.
HasTitle ==
    /\ metadata # None
    /\ "title" \in DOMAIN metadata
    /\ metadata["title"] # None

\* C26 as stated: a document just built has as product_name the extracted
\* title when there is one, and 'Unknown Product' whenever the title is
\* absent: no metadata, no title attribute, or a null title.
C26_ProductNameFallsBack ==
    (batch_pc = "loop" /\ batch_log # << >>
     /\ batch_log[Len(batch_log)] = "success") =>
        LET built == processed_docs[Len(processed_docs)]
        IN  IF HasTitle
            THEN built.product_name = metadata["title"]
            ELSE built.product_name = PyStr("Unknown Product")

\* C29 as stated: after cleanup_temp_files, every file that processing did
\* not create is still in the base directory, also one named doc_....pdf, and
\* no temporary file of the batch is left.
C29_CleanupRemovesOnlyTempFiles ==
    batch_pc = "cleaned" =>
        /\ ForeignFiles \subseteq files
        /\ \A k \in 1..Len(urls) : temp_name(k) \notin files

\* C27 as stated: every string submitted to the embedding service has at
\* least one character.
C27_SubmittedIsNonEmpty ==
    \A k \in 1..Len(gen_requests) : gen_requests[k] # << >>

\* C30 as stated: every search request sent in a pass carries a non-empty
\* search text (a keyword, hybrid or direct search; a vector search carries
\* none), and a pass whose line at the menu prompt was empty sends no request
\* and leaves current_query as it was.
C30_RequestsCarryQuery ==
    /\ [](\A k \in 1..Len(chat_requests) :
            (chat_requests[k].op = "search" /\ chat_requests[k].search_text # None)
                => chat_requests[k].search_text.val # << >>)
    /\ [][(chat_pc = "chosen" /\ chat_choice = << >> /\ chat_pc' # "chosen")
            => chat_requests' = << >> /\ current_query' = current_query]_vars

\* C28 as stated: once a prompt has found the input stream ended, start_chat
\* has returned: it neither reports the error and prompts again nor raises.
C28_EndOfInputEndsLoop ==
    chat_eof => chat_pc = "returned"

\* The choices that the menu loop passes to _perform_direct_search.
IsDirectSearch(choice) ==
    /\ choice \notin { <<"1">>, <<"2">>, <<"3">>, <<"4">>, <<"5">>, <<"6">>, <<"7">>,
                       <<"h", "e", "l", "p">> }
    /\ lower(choice) \notin { <<"q", "u", "i", "t">>, <<"e", "x", "i", "t">>, <<"q">>,
                              <<"b", "y", "e">> }

\* C24: each pass of the loop leaves current_query equal to the query of the
\* search action issued in the pass: the non-empty line typed at the prompt of
\* a keyword, vector or hybrid search, or the line that was searched directly.
\* A pass with no search action (help, list documents, get document by id,
\* index statistics, the filtered search that issues nothing) or with an empty
\* or unread query leaves it as it was.
C24_CurrentQueryIsLatestSearch ==
    [][(chat_pc = "chosen" /\ chat_pc' # "chosen" /\ chat_event' # "quit") =>
          current_query' =
              IF /\ chat_choice \in { <<"1">>, <<"2">>, <<"3">> }
                 /\ chat_typed'.kind = "text"
                 /\ strip(chat_typed'.text) # << >>
              THEN strip(chat_typed'.text)
              ELSE IF IsDirectSearch(chat_choice) THEN chat_choice
              ELSE current_query]_vars

\* A keyword search for "pump" in the first pass, and the list of documents in
\* the second, which sent its request and left the query as it was.
C24_Witness ==
    /\ chat_pc = "menu"
    /\ chat_turns = 2
    /\ chat_choice = <<"5">>
    /\ chat_requests # << >>
    /\ current_query = <<"p", "u", "m", "p">>

FirstThreeTrimmed(out) ==
    /\ \A k \in 1..Len(out) :
          out[k].kind = "snippet" =>
              /\ out[k].pos \in 1..3
              /\ out[k].text # << >>
              /\ strip(out[k].text) = out[k].text
    /\ \A j, k \in 1..Len(out) :
          (j < k /\ out[j].kind = "snippet" /\ out[k].kind = "snippet"
                 /\ out[j].n = out[k].n) => out[j].pos < out[k].pos

\* C21 as stated: of the content highlights of a result, either interface
\* shows at most the first three, in their order, each trimmed, and none that
\* is null, empty or blank.
C21_ShowsFirstThreeTrimmed ==
    FirstThreeTrimmed(chat_out) /\ FirstThreeTrimmed(lc_out)

\* C23 as stated: a filtered search with a filter field and a filter value
\* sends one request, whose filter is the equality of the field and the
\* value and whose search text is the text typed, or the wildcard when none
\* was typed, and what it displays without a search text has no score. This
\* for option 4 of either interface.
C23_FilteredSearchSendsFilter ==
    /\ (chat_pc = "menu" /\ chat_choice = <<"4">> /\ chat_event = "none")
          => /\ Len(chat_requests) = 1
             /\ chat_requests[1].op = "search"
             /\ chat_requests[1].filter # None
    /\ (/\ lc_pc \in {"done", "raised"}
        /\ Len(lc_typed) = 3
        /\ \A k \in 1..3 : lc_typed[k].kind = "text"
        /\ strip(lc_typed[1].text) # << >> /\ strip(lc_typed[2].text) # << >>)
          => /\ Len(lc_requests) = 1
             /\ lc_requests[1].op = "search"
             /\ lc_requests[1].filter
                  = PyStr(strip(lc_typed[1].text) \o <<" ", "e", "q", " ", "'">>
                          \o strip(lc_typed[2].text) \o <<"'">>)
             /\ lc_requests[1].search_text
                  = PyStr(IF strip(lc_typed[3].text) = << >> THEN <<"*">>
                          ELSE strip(lc_typed[3].text))
             /\ \A k \in 1..Len(lc_out) : lc_out[k].kind # "score"

====
